---- MODULE Spec2Model ----
(***************************************************************************)
(* Model of streamlitapp.py: the CSV normaliser (process_data), the filter *)
(* widgets and filter application, the "Hasilkan Ringkasan" handler with   *)
(* its aggregation and blocking LLM request, and the chart section.        *)
(*                                                                         *)
(* One script run is the sequence load -> gate -> filter -> summary ->     *)
(* (await) -> charts -> idle, as the script executes top to bottom.        *)
(* pandas/numpy behaviour the script relies on is modelled as documented:  *)
(* sort_values' default kind is quicksort, which is not stable, so the     *)
(* order among equal keys is a nondeterministic choice.                    *)
(***************************************************************************)
EXTENDS Integers, Sequences, FiniteSets, TLC

VARIABLES
    uploaded_file,  \* the file in the uploader (NoFile when none)
    df,             \* result of process_data: sequence of normalised records
    proc_error,     \* process_data took its except branch (st.error shown)
    cached,         \* st.cache_data holds the result for uploaded_file
    pc,             \* position of the script thread
    ui,             \* elements the current run has put on the page
    clicked,        \* value st.button returns in the current run
    pending_click,  \* a button trigger that arrived while the run was busy
    sel,            \* values returned by the filter widgets in this run
    filtered_df,    \* the filtered view
    prompt,         \* aggregates interpolated into the prompt (NoPrompt if none)
    in_flight,      \* HTTP requests sent and not yet resolved
    requests_run,   \* HTTP requests sent by the current run
    outcome,        \* how the request of this run resolved
    charts          \* tables handed to plotly in this run (NoCharts if none)

vars == <<uploaded_file, df, proc_error, cached, pc, ui, clicked, pending_click,
          sel, filtered_df, prompt, in_flight, requests_run, outcome, charts>>

----------------------------------------------------------------------------
\* Bounds of the input families.
MaxRows == 3
MaxRowsFilter == 2
MaxRowsAgg == 4
MaxRowsFull == 2

\* Program constants.
TopN == 3
TopNChart == 5

----------------------------------------------------------------------------
\* Generic helpers.

Range(s) == {s[i] : i \in DOMAIN s}

SeqsUpTo(S, n) == UNION {[1..k -> S] : k \in 0..n}

Max(S) == CHOOSE x \in S : \A y \in S : y <= x
Min(S) == CHOOSE x \in S : \A y \in S : x <= y

RECURSIVE SumSeq(_)
SumSeq(s) == IF s = <<>> THEN 0 ELSE Head(s) + SumSeq(Tail(s))

\* Indices of s, ascending, whose element satisfies the mask (boolean indexing).
RECURSIVE MaskSeq(_, _)
MaskSeq(s, mask) ==
    IF s = <<>> THEN <<>>
    ELSE (IF Head(mask) THEN <<Head(s)>> ELSE <<>>) \o MaskSeq(Tail(s), Tail(mask))

\* Labels in order of first appearance (pandas unique()).
RECURSIVE Unique(_)
Unique(s) ==
    IF s = <<>> THEN <<>>
    ELSE LET init == Unique(SubSeq(s, 1, Len(s) - 1))
             last == s[Len(s)]
         IN IF last \in Range(init) THEN init ELSE Append(init, last)

RemoveAt(s, i) == SubSeq(s, 1, i - 1) \o SubSeq(s, i + 1, Len(s))

\* numpy argsort(kind='quicksort') on integer keys k, applied to s: every
\* ordering that is ascending by key is a possible result; ties have no
\* guaranteed order. Built front to back: any element of least key may come
\* first.
RECURSIVE QuickSortBy(_, _)
QuickSortBy(s, k) ==
    IF s = <<>> THEN {<<>>}
    ELSE UNION {{<<s[i]>> \o rest : rest \in QuickSortBy(RemoveAt(s, i), RemoveAt(k, i))} :
                   i \in {j \in DOMAIN s : k[j] = Min(Range(k))}}

----------------------------------------------------------------------------
\* Cells of the uploaded CSV, as text.

\* Date cells that parse, in chronological order; the index is the timestamp.
TsStrings == <<"2024-01-01 00:00", "2024-01-01 06:00", "2024-01-01 12:00",
               "2024-01-01 18:00", "2024-01-01 21:00",
               "2024-01-02 00:00", "2024-01-02 12:00",
               "2024-01-03 00:00">>
\* The calendar day (1, 2, 3) of each timestamp, and the day's %Y-%m-%d text.
DayOfTs == <<1, 1, 1, 1, 1, 2, 2, 3>>
DayStrings == <<"2024-01-01", "2024-01-02", "2024-01-03">>

NaT == 0

\* pd.to_datetime(cell, errors='coerce'): the timestamp, or NaT.
ToDatetime(cell) ==
    IF \E i \in DOMAIN TsStrings : TsStrings[i] = cell
    THEN CHOOSE i \in DOMAIN TsStrings : TsStrings[i] = cell
    ELSE NaT

\* Series.dt.date / Timestamp.date(): the calendar day of a timestamp.
DateOf(ts) == DayOfTs[ts]

\* Series.dt.strftime('%Y-%m-%d').
Strftime(ts) == DayStrings[DayOfTs[ts]]

\* pd.to_numeric(cell, errors='coerce'): a finite number (held in tenths),
\* an infinity, or NaN for an empty or non-numeric cell.
ToNumeric(cell) ==
    CASE cell = "0"    -> [k |-> "fin", tenths |-> 0]
      [] cell = "5"    -> [k |-> "fin", tenths |-> 50]
      [] cell = "7"    -> [k |-> "fin", tenths |-> 70]
      [] cell = "12"   -> [k |-> "fin", tenths |-> 120]
      [] cell = "-5"   -> [k |-> "fin", tenths |-> -50]
      [] cell = "2.7"  -> [k |-> "fin", tenths |-> 27]
      [] cell = "-1.5" -> [k |-> "fin", tenths |-> -15]
      [] cell = "inf"  -> [k |-> "inf", tenths |-> 0]
      [] OTHER         -> [k |-> "nan", tenths |-> 0]

\* .fillna(0)
FillNa0(x) == IF x.k = "nan" THEN [k |-> "fin", tenths |-> 0] ELSE x

\* Mutant of AsTypeInt: rounds down instead of truncating toward zero.
AsTypeIntFloor(x) == x.tenths \div 10

\* .astype(int) on one finite float: truncation toward zero.
AsTypeInt(x) ==
    IF x.tenths >= 0 THEN x.tenths \div 10 ELSE -((-x.tenths) \div 10)

\* read_csv reads an empty cell, and a cell holding one of its default NA
\* markers, as NaN; isna() of a text cell.
IsNa(cell) == cell \in {"", "NA"}

----------------------------------------------------------------------------
\* The uploaded file.

CategoricalCols == {"Platform", "Sentiment", "Media Type", "Location"}
AllCols == {"Date", "Engagements"} \cup CategoricalCols

NoFile == [kind |-> "none", cols |-> {}, rows |-> <<>>]

\* A CSV row: one text cell per column (the cell of a column the header
\* lacks is ignored).
Rows(D, E, P, S, M, L) ==
    [Date : D, Engagements : E, Platform : P, Sentiment : S,
     MediaType : M, Location : L]

CsvFiles(colsets, rowset, n) ==
    [kind : {"csv"}, cols : colsets, rows : SeqsUpTo(rowset, n)]

\* A file whose bytes are not UTF-8, and a zero-byte file.
BrokenFiles ==
    {[kind |-> "undecodable", cols |-> {}, rows |-> <<>>],
     [kind |-> "csv", cols |-> {}, rows |-> <<>>]}

Cell(row, col) ==
    CASE col = "Date"        -> row.Date
      [] col = "Engagements" -> row.Engagements
      [] col = "Platform"    -> row.Platform
      [] col = "Sentiment"   -> row.Sentiment
      [] col = "Media Type"  -> row.MediaType
      [] col = "Location"    -> row.Location

----------------------------------------------------------------------------
\* process_data

\* Mutant of FillCategorical: adds an absent column but leaves empty cells.
FillCategoricalAbsentOnly(file, row, col) ==
    IF col \in file.cols THEN Cell(row, col) ELSE "Unknown"

\* Fill of one categorical column for one row: the loop body of lines 103-107
\* (df[col].fillna(..., inplace=True) reaches the frame, as it does in
\* pandas before 3.0).
FillCategorical(file, row, col) ==
    IF col \in file.cols
    THEN (IF IsNa(Cell(row, col)) THEN "Unknown" ELSE Cell(row, col))
    ELSE "Unknown"

\* Mutant of Raises: to_datetime without errors='coerce' raises on a bad cell.
RaisesOnBadDate(file) ==
    \/ file.kind # "csv"
    \/ file.cols = {}
    \/ "Date" \notin file.cols
    \/ "Engagements" \notin file.cols
    \/ \E i \in DOMAIN file.rows : ToNumeric(file.rows[i].Engagements).k = "inf"
    \/ \E i \in DOMAIN file.rows : ToDatetime(file.rows[i].Date) = NaT

\* The statements of the try block that can raise: decoding, read_csv on a
\* file without columns, df['Date'] / df['Engagements'] on a missing column,
\* and astype(int) on a non-finite value.
Raises(file) ==
    \/ file.kind # "csv"
    \/ file.cols = {}
    \/ "Date" \notin file.cols
    \/ "Engagements" \notin file.cols
    \/ \E i \in DOMAIN file.rows : ToNumeric(file.rows[i].Engagements).k = "inf"

\* Row i after the column assignments of lines 95-107 (idx is the row's index
\* label, which pandas keeps through dropna and sort_values).
Normalised(file, i) ==
    LET row == file.rows[i]
    IN [idx |-> i,
        Date |-> ToDatetime(row.Date),
        Engagements |-> AsTypeInt(FillNa0(ToNumeric(row.Engagements))),
        Platform |-> FillCategorical(file, row, "Platform"),
        Sentiment |-> FillCategorical(file, row, "Sentiment"),
        MediaType |-> FillCategorical(file, row, "Media Type"),
        Location |-> FillCategorical(file, row, "Location")]

\* df.dropna(subset=['Date'])
DropNaDate(recs) == MaskSeq(recs, [i \in DOMAIN recs |-> recs[i].Date # NaT])

\* df['DateString'] = df['Date'].dt.strftime('%Y-%m-%d')
WithDateString(recs) ==
    [i \in DOMAIN recs |->
        [idx |-> recs[i].idx, Date |-> recs[i].Date,
         Engagements |-> recs[i].Engagements, Platform |-> recs[i].Platform,
         Sentiment |-> recs[i].Sentiment, MediaType |-> recs[i].MediaType,
         Location |-> recs[i].Location, DateString |-> Strftime(recs[i].Date)]]

\* Mutant of SortByDate: the frame is left in file order.
SortByDateOmitted(recs) == {recs}

\* df.sort_values(by='Date'): default kind='quicksort'.
SortByDate(recs) == QuickSortBy(recs, [i \in DOMAIN recs |-> recs[i].Date])

\* Mutant of process_data: the except branch returns the empty frame without
\* reporting.
process_data_silent(file) ==
    IF Raises(file)
    THEN {[df |-> <<>>, error |-> FALSE]}
    ELSE {[df |-> out, error |-> FALSE] :
            out \in SortByDate(WithDateString(DropNaDate(
                       [i \in DOMAIN file.rows |-> Normalised(file, i)])))}

\* The possible results of process_data: the frame and whether the except
\* branch ran.
process_data(file) ==
    IF Raises(file)
    THEN {[df |-> <<>>, error |-> TRUE]}
    ELSE {[df |-> out, error |-> FALSE] :
            out \in SortByDate(WithDateString(DropNaDate(
                       [i \in DOMAIN file.rows |-> Normalised(file, i)])))}

----------------------------------------------------------------------------
\* Filter widgets and filter application.

Column(recs, col) ==
    [i \in DOMAIN recs |->
        CASE col = "Platform"   -> recs[i].Platform
          [] col = "Sentiment"  -> recs[i].Sentiment
          [] col = "Media Type" -> recs[i].MediaType
          [] col = "Location"   -> recs[i].Location]

\* ['All'] + list(df[col].unique()): the options of one selectbox.
Options(recs, col) == {"All"} \cup Range(Unique(Column(recs, col)))

\* df['Date'].min()/.max() as calendar days: the bounds of both date inputs.
MinDate(recs) == DateOf(Min({recs[i].Date : i \in DOMAIN recs}))
MaxDate(recs) == DateOf(Max({recs[i].Date : i \in DOMAIN recs}))

NoSel == [platform |-> "All", sentiment |-> "All", media_type |-> "All",
          location |-> "All", start_date |-> 0, end_date |-> 0]

\* What the six widgets can return in one run over a non-empty frame.
Selections(recs) ==
    [platform : Options(recs, "Platform"),
     sentiment : Options(recs, "Sentiment"),
     media_type : Options(recs, "Media Type"),
     location : Options(recs, "Location"),
     start_date : MinDate(recs)..MaxDate(recs),
     end_date : MinDate(recs)..MaxDate(recs)]

\* The widgets' default values: index 0 of each selectbox, value=min_date and
\* value=max_date of the date inputs.
DefaultSelection(recs) ==
    [platform |-> "All", sentiment |-> "All", media_type |-> "All",
     location |-> "All", start_date |-> MinDate(recs), end_date |-> MaxDate(recs)]

\* One "if selected != 'All': filtered_df = filtered_df[column == selected]".
FilterEq(recs, col, selected) ==
    IF selected # "All"
    THEN MaskSeq(recs, [i \in DOMAIN recs |-> Column(recs, col)[i] = selected])
    ELSE recs

\* Mutant of FilterDate: the end date is excluded.
FilterDateExclusive(recs, start_date, end_date) ==
    MaskSeq(recs, [i \in DOMAIN recs |->
                     /\ DateOf(recs[i].Date) >= start_date
                     /\ DateOf(recs[i].Date) < end_date])

\* The date range filter; both values are dates, hence truthy, so the first
\* branch of the if/elif chain is the one taken.
FilterDate(recs, start_date, end_date) ==
    MaskSeq(recs, [i \in DOMAIN recs |->
                     /\ DateOf(recs[i].Date) >= start_date
                     /\ DateOf(recs[i].Date) <= end_date])

FilterData(recs, s) ==
    FilterDate(
        FilterEq(
            FilterEq(
                FilterEq(
                    FilterEq(recs, "Platform", s.platform),
                    "Sentiment", s.sentiment),
                "Media Type", s.media_type),
            "Location", s.location),
        s.start_date, s.end_date)

----------------------------------------------------------------------------
\* Aggregation.

\* Python's ordering (by code point) of every label and date string in use.
LabelOrder == <<"2024-01-01", "2024-01-02", "2024-01-03",
                "A", "All", "B", "C", "D", "Negative", "Positive",
                "Unknown", "X", "a">>

\* The keys of a groupby, which sorts its groups by key.
SortedKeys(S) == SelectSeq(LabelOrder, LAMBDA x : x \in S)

\* Mutant of GroupBySum: groupby(sort=False), groups in order of appearance.
GroupBySumUnsorted(keys, vals) ==
    LET ks == Unique(keys)
    IN [i \in DOMAIN ks |->
          [key |-> ks[i],
           val |-> SumSeq(MaskSeq(vals, [j \in DOMAIN keys |-> keys[j] = ks[i]]))]]

\* df.groupby(key)[value].sum(): one entry per key, in key order.
GroupBySum(keys, vals) ==
    LET ks == SortedKeys(Range(keys))
    IN [i \in DOMAIN ks |->
          [key |-> ks[i],
           val |-> SumSeq(MaskSeq(vals, [j \in DOMAIN keys |-> keys[j] = ks[i]]))]]

\* Counts per label, labels in order of first appearance (value_counts
\* before it sorts).
CountsByAppearance(labels) ==
    LET ks == Unique(labels)
    IN [i \in DOMAIN ks |->
          [key |-> ks[i],
           val |-> Len(MaskSeq(labels, [j \in DOMAIN labels |-> labels[j] = ks[i]]))]]

\* Series.value_counts(): sorted by count, descending, with sort_values'
\* default quicksort, so labels of equal count come in no guaranteed order.
ValueCounts(labels) ==
    LET c == CountsByAppearance(labels)
    IN QuickSortBy(c, [i \in DOMAIN c |-> -(c[i].val)])

\* Series.nlargest(n) with keep='first': entry i is kept when fewer than n
\* entries are greater, or equal and earlier in the series.
NLargest(n, s) ==
    {s[i] : i \in {i \in DOMAIN s :
        Cardinality({j \in DOMAIN s :
            \/ s[j].val > s[i].val
            \/ (s[j].val = s[i].val /\ j < i)}) < n}}

EngagementsOf(recs) == [i \in DOMAIN recs |-> recs[i].Engagements]
DateStrings(recs) == [i \in DOMAIN recs |-> recs[i].DateString]

NoPrompt == [kind |-> "none"]
Raised == [kind |-> "raised"]

\* Lines 209-217: the aggregates of the prompt. The three top-N tables are the
\* dicts' items as sets (the order of keys in a dict is not modelled). On an
\* empty frame Series.min() is NaT, and NaT.strftime raises.
Aggregate(recs) ==
    IF recs = <<>>
    THEN {Raised}
    ELSE {[kind |-> "prompt",
           sentiment_counts |-> Range(CountsByAppearance(Column(recs, "Sentiment"))),
           platform_engagements |->
               NLargest(TopN, GroupBySum(Column(recs, "Platform"), EngagementsOf(recs))),
           media_type_counts |-> NLargest(TopN, vm),
           location_counts |-> NLargest(TopN, vl),
           total_engagements |-> SumSeq(EngagementsOf(recs)),
           date_range_text |->
               <<Strftime(Min({recs[i].Date : i \in DOMAIN recs})),
                 Strftime(Max({recs[i].Date : i \in DOMAIN recs}))>>] :
            vm \in ValueCounts(Column(recs, "Media Type")),
            vl \in ValueCounts(Column(recs, "Location"))}

NoCharts == [kind |-> "none"]

\* Lines 276-358: the five tables handed to plotly, each as a set of rows.
ChartTables(recs) ==
    {[kind |-> "charts",
      sentiment |-> Range(CountsByAppearance(Column(recs, "Sentiment"))),
      trend |-> Range(GroupBySum(DateStrings(recs), EngagementsOf(recs))),
      platform |-> Range(GroupBySum(Column(recs, "Platform"), EngagementsOf(recs))),
      media_type |-> Range(CountsByAppearance(Column(recs, "Media Type"))),
      locations |-> NLargest(TopNChart, vl)] :
        vl \in ValueCounts(Column(recs, "Location"))}

----------------------------------------------------------------------------
\* The summary handler.

\* Mutant of HandlerBranch: no guard for an empty filtered frame.
HandlerBranchNoGuard(btn, recs) == IF ~btn THEN "skip" ELSE "call"

\* Lines 203-206: what the handler does in this run.
HandlerBranch(btn, recs) ==
    IF ~btn THEN "skip"
    ELSE IF recs = <<>> THEN "warn"
    ELSE "call"

\* How requests.post / raise_for_status / response.json() / the lookup of the
\* nested text can end.
Outcomes == {"ok", "network_error", "http_error", "invalid_json",
             "no_candidates", "no_text_key"}
Failing == Outcomes \ {"ok"}

\* Mutant of HandleResponse: without the final "except Exception" a missing
\* 'text' key leaves the handler as a KeyError.
HandleResponseNoCatchAll(o) ==
    CASE o = "ok"            -> [shown |-> {"summary"}, uncaught |-> FALSE]
      [] o = "no_candidates" -> [shown |-> {"error_no_valid_response", "raw_json"},
                                 uncaught |-> FALSE]
      [] o \in {"network_error", "http_error", "invalid_json"}
                             -> [shown |-> {"error_api_call"}, uncaught |-> FALSE]
      [] o = "no_text_key"   -> [shown |-> {}, uncaught |-> TRUE]

\* Lines 241-266: what the try/except puts on the page for each outcome, and
\* whether an exception leaves the handler.
HandleResponse(o) ==
    CASE o = "ok"            -> [shown |-> {"summary"}, uncaught |-> FALSE]
      [] o = "no_candidates" -> [shown |-> {"error_no_valid_response", "raw_json"},
                                 uncaught |-> FALSE]
      [] o \in {"network_error", "http_error", "invalid_json"}
                             -> [shown |-> {"error_api_call"}, uncaught |-> FALSE]
      [] o = "no_text_key"   -> [shown |-> {"error_unexpected"}, uncaught |-> FALSE]

ErrorMessages == {"error_no_valid_response", "error_api_call", "error_unexpected"}

----------------------------------------------------------------------------
\* Input families: the files the uploader hands to the script.

GoodDate == TsStrings[1]

\* Rows given distinct, increasing timestamps of one day.
WithDates(rows) == [i \in DOMAIN rows |-> [rows[i] EXCEPT !.Date = TsStrings[i]]]

\* Date and Engagements cells of every kind; missing/extra header columns;
\* categorical cells present, empty, and columns absent.
FilesNorm ==
    CsvFiles({AllCols},
             Rows({"", "not a date", TsStrings[1], TsStrings[3], TsStrings[6]},
                  {"12", "inf"}, {"A"}, {"Positive"}, {"X"}, {"X"}),
             MaxRows)
    \cup CsvFiles({AllCols},
             Rows({GoodDate}, {"", "abc", "12", "-5", "2.7", "-1.5", "inf"},
                  {"A"}, {"Positive"}, {"X"}, {"X"}),
             MaxRows)
    \cup {[f EXCEPT !.rows = WithDates(f.rows)] :
            f \in CsvFiles({AllCols, AllCols \ {"Platform"},
                            AllCols \ {"Media Type", "Location"},
                            {"Date", "Engagements"}},
                           Rows({GoodDate}, {"12"}, {"", "A", "a"}, {"NA", "Positive"},
                                {"", "X"}, {"X"}),
                           MaxRows)}
    \cup CsvFiles({AllCols \ {"Date"}, AllCols \ {"Engagements"}},
             Rows({GoodDate, "not a date"}, {"12"}, {"A"}, {"Positive"}, {"X"}, {"X"}),
             1)
    \cup BrokenFiles

\* Three days, labels that differ only in case, and the label "All".
FilesFilter ==
    CsvFiles({AllCols},
             Rows({TsStrings[1], TsStrings[6], TsStrings[8]}, {"12"},
                  {"A", "a", "All"}, {"Positive", "Negative"}, {"X"}, {"X"}),
             MaxRowsFilter)

\* Up to four labels per grouped column, engagement sums that tie and differ.
FilesAgg ==
    {[f EXCEPT !.rows = WithDates(f.rows)] :
        f \in CsvFiles({AllCols},
                       Rows({GoodDate}, {"5", "7"}, {"A", "B", "C", "D"},
                            {"Positive"}, {"X"}, {"X"}),
                       MaxRowsAgg)
           \cup CsvFiles({AllCols},
                       Rows({GoodDate}, {"5"}, {"A"}, {"Positive"},
                            {"A", "B", "C", "D"}, {"X"}),
                       MaxRowsAgg)
           \cup CsvFiles({AllCols},
                       Rows({GoodDate}, {"5"}, {"A"}, {"Positive"}, {"X"},
                            {"A", "B", "C", "D"}),
                       MaxRowsAgg)}

FilesFull ==
    CsvFiles({AllCols},
             Rows({TsStrings[1], TsStrings[6]}, {"5"}, {"A", "B"},
                  {"Positive"}, {"X"}, {"X"}),
             MaxRowsFull)
    \cup BrokenFiles

----------------------------------------------------------------------------
\* The script.

Init ==
    /\ uploaded_file = NoFile
    /\ df = <<>>
    /\ proc_error = FALSE
    /\ cached = FALSE
    /\ pc = "load"
    /\ ui = {}
    /\ clicked = FALSE
    /\ pending_click = FALSE
    /\ sel = NoSel
    /\ filtered_df = <<>>
    /\ prompt = NoPrompt
    /\ in_flight = 0
    /\ requests_run = 0
    /\ outcome = "none"
    /\ charts = NoCharts

\* The aggregation as a function of the frame: the script stands at the
\* button, pressed, in a rerun over a cached non-empty frame with the widgets
\* at their defaults.
InitAgg ==
    \E f \in {g \in FilesAgg : g.rows # <<>>} :
      \E r \in process_data(f) :
        /\ uploaded_file = f
        /\ df = r.df
        /\ proc_error = r.error
        /\ cached = TRUE
        /\ pc = "summary"
        /\ ui = {"filters", "summary_section"}
        /\ clicked = TRUE
        /\ pending_click = FALSE
        /\ sel = DefaultSelection(r.df)
        /\ filtered_df = FilterData(r.df, DefaultSelection(r.df))
        /\ prompt = NoPrompt
        /\ in_flight = 0
        /\ requests_run = 0
        /\ outcome = "none"
        /\ charts = NoCharts

\* The user puts a file in the uploader; the script reruns from the top.
Upload(files) ==
    /\ pc = "idle"
    /\ uploaded_file = NoFile
    /\ \E f \in files : uploaded_file' = f
    /\ pc' = "load"
    /\ clicked' = FALSE
    /\ UNCHANGED <<df, proc_error, cached, ui, pending_click, sel, filtered_df,
                   prompt, in_flight, requests_run, outcome, charts>>

UploadNorm == Upload(FilesNorm)
UploadFilter == Upload(FilesFilter)
UploadFull == Upload(FilesFull)

\* Lines 123-126: df = process_data(uploaded_file.read()) under st.cache_data
\* (a repeated call with the same bytes returns the stored frame and replays
\* the stored st.error). A run starts with an empty page.
LoadData ==
    /\ pc = "load"
    /\ IF uploaded_file = NoFile
       THEN /\ df' = <<>>
            /\ UNCHANGED <<proc_error, cached>>
       ELSE IF cached
       THEN UNCHANGED <<df, proc_error, cached>>
       ELSE /\ \E r \in process_data(uploaded_file) :
                    /\ df' = r.df
                    /\ proc_error' = r.error
            /\ cached' = TRUE
    /\ ui' = IF proc_error' THEN {"error_process"} ELSE {}
    /\ pc' = "gate"
    /\ sel' = NoSel
    /\ filtered_df' = <<>>
    /\ prompt' = NoPrompt
    /\ requests_run' = 0
    /\ outcome' = "none"
    /\ charts' = NoCharts
    /\ UNCHANGED <<uploaded_file, clicked, pending_click, in_flight>>

\* Lines 128-135: the empty states, or the filter section.
Gate ==
    /\ pc = "gate"
    /\ IF df = <<>> /\ uploaded_file # NoFile
       THEN /\ ui' = ui \cup {"warning_no_valid_data"}
            /\ pc' = "idle"
       ELSE IF df = <<>>
       THEN /\ ui' = ui \cup {"info_upload"}
            /\ pc' = "idle"
       ELSE /\ ui' = ui \cup {"filters"}
            /\ pc' = "filter"
    /\ UNCHANGED <<uploaded_file, df, proc_error, cached, clicked, pending_click,
                   sel, filtered_df, prompt, in_flight, requests_run, outcome, charts>>

\* Lines 149-202: the widgets return the user's selection, the filters are
\* applied, and the summary section with its button is rendered.
ApplyFilters ==
    /\ pc = "filter"
    /\ \E s \in Selections(df) :
          /\ sel' = s
          /\ filtered_df' = FilterData(df, s)
    /\ ui' = ui \cup {"summary_section"}
    /\ pc' = "summary"
    /\ UNCHANGED <<uploaded_file, df, proc_error, cached, clicked, pending_click,
                   prompt, in_flight, requests_run, outcome, charts>>

\* Lines 203-242: the button handler up to the blocking requests.post.
SummaryHandler ==
    /\ pc = "summary"
    /\ LET branch == HandlerBranch(clicked, filtered_df)
       IN CASE branch = "skip" ->
                 /\ pc' = "charts"
                 /\ UNCHANGED <<ui, prompt, in_flight, requests_run>>
            [] branch = "warn" ->
                 /\ ui' = ui \cup {"warning_no_summary_data"}
                 /\ pc' = "charts"
                 /\ UNCHANGED <<prompt, in_flight, requests_run>>
            [] branch = "call" ->
                 \E p \in Aggregate(filtered_df) :
                    /\ prompt' = p
                    /\ IF p = Raised
                       THEN /\ pc' = "crashed"
                            /\ UNCHANGED <<in_flight, requests_run>>
                       ELSE /\ pc' = "await"
                            /\ in_flight' = in_flight + 1
                            /\ requests_run' = requests_run + 1
                    /\ UNCHANGED ui
    /\ UNCHANGED <<uploaded_file, df, proc_error, cached, clicked, pending_click,
                   sel, filtered_df, outcome, charts>>

\* Mutant of Trigger: the trigger starts a second handler at once, which
\* sends its own request while the first is outstanding.
TriggerOverlapping ==
    /\ pc = "await"
    /\ in_flight < 3
    /\ in_flight' = in_flight + 1
    /\ UNCHANGED <<uploaded_file, df, proc_error, cached, pc, ui, clicked, sel,
                   pending_click, filtered_df, prompt, requests_run, outcome, charts>>

\* The button is pressed again while the script thread is blocked in
\* requests.post: the session runs one script thread, so the trigger waits
\* for the run to end (several triggers coalesce into one rerun).
Trigger ==
    /\ pc = "await"
    /\ pending_click' = TRUE
    /\ UNCHANGED <<uploaded_file, df, proc_error, cached, pc, ui, clicked, sel,
                   filtered_df, prompt, in_flight, requests_run, outcome, charts>>

\* Lines 242-266: the request resolves and the try/except reports it.
Resolve ==
    /\ pc = "await"
    /\ \E o \in Outcomes :
          /\ outcome' = o
          /\ ui' = ui \cup HandleResponse(o).shown
          /\ pc' = IF HandleResponse(o).uncaught THEN "crashed" ELSE "charts"
    /\ in_flight' = in_flight - 1
    /\ UNCHANGED <<uploaded_file, df, proc_error, cached, clicked, pending_click,
                   sel, filtered_df, prompt, requests_run, charts>>

\* Lines 269-361: the charts, or the no-match message.
Charts ==
    /\ pc = "charts"
    /\ IF filtered_df # <<>>
       THEN /\ \E c \in ChartTables(filtered_df) : charts' = c
            /\ ui' = ui \cup {"charts"}
       ELSE /\ charts' = NoCharts
            /\ ui' = ui \cup {"info_no_match"}
    /\ pc' = "idle"
    /\ UNCHANGED <<uploaded_file, df, proc_error, cached, clicked, pending_click,
                   sel, filtered_df, prompt, in_flight, requests_run, outcome>>

\* The user changes a filter widget or presses the button (or a waiting
\* trigger is served): the script reruns from the top.
Interact ==
    /\ pc = "idle"
    /\ "summary_section" \in ui
    /\ IF pending_click
       THEN clicked' = TRUE
       ELSE \E c \in BOOLEAN : clicked' = c
    /\ pending_click' = FALSE
    /\ pc' = "load"
    /\ UNCHANGED <<uploaded_file, df, proc_error, cached, ui, sel, filtered_df,
                   prompt, in_flight, requests_run, outcome, charts>>

NextNorm == UploadNorm \/ LoadData \/ Gate
NextFilter == UploadFilter \/ LoadData \/ Gate \/ ApplyFilters
NextAgg == SummaryHandler
Next == UploadFull \/ LoadData \/ Gate \/ ApplyFilters \/ SummaryHandler
           \/ Trigger \/ Resolve \/ Charts \/ Interact

SpecNorm == Init /\ [][NextNorm]_vars
SpecFilter == Init /\ [][NextFilter]_vars
SpecAgg == InitAgg /\ [][NextAgg]_vars
Spec == Init /\ [][Next]_vars

----------------------------------------------------------------------------
\* Properties of process_data (checked under SpecNorm).

\* process_data has returned for the uploaded file.
Processed == cached /\ uploaded_file # NoFile
Accepted == Processed /\ ~proc_error

RawRow(i) == uploaded_file.rows[df[i].idx]

\* What the text of an Engagements cell denotes, truncated toward zero.
ExpectedEngagements(cell) ==
    CASE cell = "12"   -> 12
      [] cell = "5"    -> 5
      [] cell = "7"    -> 7
      [] cell = "2.7"  -> 2
      [] cell = "-5"   -> -5
      [] cell = "-1.5" -> -1
      [] OTHER         -> 0

BadDate(cell) == cell \in {"", "not a date"}
BadDateRows == {j \in DOMAIN uploaded_file.rows : BadDate(uploaded_file.rows[j].Date)}
HasInfinity == \E j \in DOMAIN uploaded_file.rows : uploaded_file.rows[j].Engagements = "inf"
HasBothColumns == {"Date", "Engagements"} \subseteq uploaded_file.cols

\* C1 as stated: on every accepted input every record's Engagements is an
\* integer >= 0, whatever the cell held (a negative number included).
C1_Original ==
    Accepted => \A i \in DOMAIN df : df[i].Engagements \in Nat

\* C1 amended: on every accepted input every record's Engagements is the
\* integer its cell denotes truncated toward zero, sign kept, and 0 for a
\* missing or non-numeric cell; so it is >= 0 for every cell except a
\* numeric cell holding -1 or less, whose negative value is kept.
C1_Amended ==
    Accepted =>
        \A i \in DOMAIN df :
            /\ df[i].Engagements \in Int
            /\ df[i].Engagements = ExpectedEngagements(RawRow(i).Engagements)
            /\ RawRow(i).Engagements \in {"", "abc"} => df[i].Engagements = 0
            /\ RawRow(i).Engagements \notin {"-5", "-1.5"} => df[i].Engagements >= 0

C1_Witness ==
    /\ Accepted
    /\ \E i \in DOMAIN df : RawRow(i).Engagements = "-1.5" /\ df[i].Engagements = -1
    /\ \E i \in DOMAIN df : RawRow(i).Engagements = "abc" /\ df[i].Engagements = 0
    /\ \E i \in DOMAIN df : RawRow(i).Engagements = "" /\ df[i].Engagements = 0

SortedByDate == \A i, j \in DOMAIN df : i < j => df[i].Date <= df[j].Date

\* C3 as stated: the result is sorted ascending by Date and records of equal
\* Date keep the relative order of their rows in the file.
C3_Original ==
    Accepted =>
        /\ SortedByDate
        /\ \A i, j \in DOMAIN df :
              (i < j /\ df[i].Date = df[j].Date) => df[i].idx < df[j].idx

\* C3 amended: the result is sorted ascending by Date and holds each kept
\* row once; the relative order of records of equal Date is not guaranteed.
C3_Amended ==
    Accepted =>
        /\ SortedByDate
        /\ \A i, j \in DOMAIN df : i # j => df[i].idx # df[j].idx
        /\ {df[i].idx : i \in DOMAIN df} = DOMAIN uploaded_file.rows \ BadDateRows

C3_Witness ==
    /\ Accepted
    /\ Len(df) = 3
    /\ df[1].idx = 3
    /\ df[1].Date < df[2].Date
    /\ df[2].Date = df[3].Date

\* The label a record must carry in one categorical column.
ExpectedLabel(i, col) ==
    IF col \notin uploaded_file.cols THEN "Unknown"
    ELSE IF Cell(RawRow(i), col) \in {"", "NA"} THEN "Unknown"
    ELSE Cell(RawRow(i), col)

----------------------------------------------------------------------------
\* Properties of the filter (checked under SpecFilter).

\* A record satisfies every active constraint of a selection.
Satisfies(r, s) ==
    /\ s.platform = "All" \/ r.Platform = s.platform
    /\ s.sentiment = "All" \/ r.Sentiment = s.sentiment
    /\ s.media_type = "All" \/ r.MediaType = s.media_type
    /\ s.location = "All" \/ r.Location = s.location
    /\ s.start_date <= DayOfTs[r.Date]
    /\ DayOfTs[r.Date] <= s.end_date

Filtered == pc = "summary"

\* C5: the filtered set is the subsequence, in the original order, of the
\* normalised records that satisfy all active constraints (exact string
\* equality per dimension not set to "All", both date bounds inclusive); it
\* is a subset of the normalised set, and "All" everywhere with the full date
\* span gives the whole normalised set.
C5_Filter ==
    Filtered =>
        /\ filtered_df = SelectSeq(df, LAMBDA r : Satisfies(r, sel))
        /\ Range(filtered_df) \subseteq Range(df)
        /\ sel = DefaultSelection(df) => filtered_df = df

C5_Witness ==
    /\ Filtered
    /\ Len(df) = 2
    /\ Len(filtered_df) = 1
    /\ sel.platform = "a"
    /\ df[1].Platform = "A"
    /\ sel.end_date = 2
    /\ DayOfTs[filtered_df[1].Date] = 2
    /\ sel.start_date = 1

----------------------------------------------------------------------------
\* Properties of the summary handler and the charts (checked under Spec).

\* The handler ran in this run with the button pressed and nothing to show.
EmptySummaryRun ==
    /\ pc \in {"charts", "idle", "crashed"}
    /\ "summary_section" \in ui
    /\ clicked
    /\ filtered_df = <<>>

\* C6 as stated: on an empty filtered set the aggregation yields zero totals
\* and empty top-N tables, and the prompt's date range is a "no data"
\* sentinel.
C6_Original ==
    EmptySummaryRun =>
        /\ pc # "crashed"
        /\ prompt.kind = "prompt"
        /\ prompt.total_engagements = 0
        /\ prompt.platform_engagements = {}
        /\ prompt.media_type_counts = {}
        /\ prompt.location_counts = {}
        /\ prompt.date_range_text = <<"no data">>

\* C6 amended: on an empty filtered set nothing raises because nothing is
\* aggregated: the handler shows a warning, builds no prompt (so no date
\* range text, sentinel or other) and sends no request, and the chart
\* section shows the no-match message in place of charts.
C6_Amended ==
    /\ pc # "crashed"
    /\ EmptySummaryRun =>
        /\ prompt = NoPrompt
        /\ requests_run = 0
        /\ in_flight = 0
        /\ "warning_no_summary_data" \in ui
        /\ pc = "idle" => (charts = NoCharts /\ "info_no_match" \in ui
                                              /\ "charts" \notin ui)

C6_Witness ==
    /\ EmptySummaryRun
    /\ pc = "idle"
    /\ df # <<>>
    /\ sel.start_date <= sel.end_date

C8_FailureHandled ==
    /\ requests_run <= 1
    /\ outcome \in Outcomes =>
        /\ requests_run = 1
        /\ pc \in {"charts", "idle", "load"}
        /\ filtered_df = FilterData(df, sel)
        /\ filtered_df # <<>>
        /\ pc = "idle" => ("charts" \in ui /\ charts \in ChartTables(filtered_df))
    /\ outcome \in Failing =>
        /\ ui \cap ErrorMessages # {}
        /\ "summary" \notin ui
    /\ outcome = "no_candidates" => "raw_json" \in ui

C8_Witness ==
    /\ pc = "idle"
    /\ outcome = "no_text_key"
    /\ "error_unexpected" \in ui
    /\ "charts" \in ui
    /\ Len(filtered_df) = 2

\* C9: when the upload cannot be decoded or parsed, process_data reports a
\* message and returns an empty set, and the run ends in the no-valid-data
\* state with no filter controls, no summary section and no charts.
C9_BrokenUpload ==
    (Processed /\ uploaded_file \in BrokenFiles) =>
        /\ df = <<>>
        /\ proc_error
        /\ pc \in {"gate", "idle"}
        /\ "error_process" \in ui
        /\ pc = "idle" => ui = {"error_process", "warning_no_valid_data"}
        /\ prompt = NoPrompt
        /\ charts = NoCharts
        /\ requests_run = 0

C9_Witness ==
    /\ Processed
    /\ uploaded_file.kind = "undecodable"
    /\ pc = "idle"
    /\ "warning_no_valid_data" \in ui

----------------------------------------------------------------------------
\* Properties of the prompt's top-N tables (checked under SpecAgg).

Aggregated == pc = "await" /\ prompt.kind = "prompt"

Labels(col) == Range(Column(filtered_df, col))
FirstPos(col, k) ==
    Min({i \in DOMAIN filtered_df : Column(filtered_df, col)[i] = k})
LabelRank(k) == CHOOSE i \in DOMAIN LabelOrder : LabelOrder[i] = k

\* Sum of Engagements of the filtered records of one platform.
RECURSIVE PlatformSumUpTo(_, _)
PlatformSumUpTo(k, n) ==
    IF n = 0 THEN 0
    ELSE PlatformSumUpTo(k, n - 1)
         + (IF filtered_df[n].Platform = k THEN filtered_df[n].Engagements ELSE 0)
PlatformSum(k) == PlatformSumUpTo(k, Len(filtered_df))

MediaTypeCount(k) == Cardinality({i \in DOMAIN filtered_df : filtered_df[i].MediaType = k})
LocationCount(k) == Cardinality({i \in DOMAIN filtered_df : filtered_df[i].Location = k})

Keys(table) == {e.key : e \in table}

\* The table holds min(TopN, number of groups) groups, each with its value,
\* and no group left out has a greater value than one it holds.
HoldsTop(table, groups, Value(_)) ==
    /\ Keys(table) \subseteq groups
    /\ Cardinality(table) = Cardinality(Keys(table))
    /\ Cardinality(table) = IF Cardinality(groups) < TopN THEN Cardinality(groups) ELSE TopN
    /\ \A e \in table : e.val = Value(e.key)
    /\ \A a \in Keys(table) : \A b \in groups \ Keys(table) : Value(a) >= Value(b)

\* Among groups of equal value the one met first in the filtered sequence is
\* the one the table holds.
TiesByFirstEncounter(table, col, Value(_)) ==
    \A a \in Keys(table) : \A b \in Labels(col) \ Keys(table) :
        Value(a) = Value(b) => FirstPos(col, a) < FirstPos(col, b)

\* C10 as stated: the three tables hold the top groups with their values,
\* and ties are decided for the group first encountered.
C10_Original ==
    Aggregated =>
        /\ HoldsTop(prompt.platform_engagements, Labels("Platform"), PlatformSum)
        /\ HoldsTop(prompt.media_type_counts, Labels("Media Type"), MediaTypeCount)
        /\ HoldsTop(prompt.location_counts, Labels("Location"), LocationCount)
        /\ TiesByFirstEncounter(prompt.platform_engagements, "Platform", PlatformSum)
        /\ TiesByFirstEncounter(prompt.media_type_counts, "Media Type", MediaTypeCount)
        /\ TiesByFirstEncounter(prompt.location_counts, "Location", LocationCount)

\* C10 amended: the three tables hold the min(3, number of groups) groups of
\* greatest value, each with its sum or count; among platforms of equal sum
\* the one whose name sorts first is the one held (groupby orders its groups
\* by key); among media types or locations of equal count which one is held
\* is not determined.
C10_Amended ==
    Aggregated =>
        /\ HoldsTop(prompt.platform_engagements, Labels("Platform"), PlatformSum)
        /\ HoldsTop(prompt.media_type_counts, Labels("Media Type"), MediaTypeCount)
        /\ HoldsTop(prompt.location_counts, Labels("Location"), LocationCount)
        /\ \A a \in Keys(prompt.platform_engagements) :
             \A b \in Labels("Platform") \ Keys(prompt.platform_engagements) :
                PlatformSum(a) = PlatformSum(b) => LabelRank(a) < LabelRank(b)

C10_Witness ==
    /\ Aggregated
    /\ Cardinality(Labels("Platform")) = 4
    /\ filtered_df[1].Platform = "D"
    /\ filtered_df[4].Platform = "A"
    /\ filtered_df[1].Engagements = 7
    /\ filtered_df[4].Engagements = 7
    /\ Keys(prompt.platform_engagements) = {"A", "B", "C"}

====
